---------------------------- MODULE Spec2Model ----------------------------
(***************************************************************************)
(* A model of cpv/region_p.py (combined-pvalues): the region/p-value       *)
(* matcher, the coverage task and its join, the Sidak correction, the      *)
(* truncated product statistic, the lag list of the ACF precomputation,    *)
(* the retry loop of gen_correlated and the batches of sim and sl_sim.     *)
(*                                                                         *)
(* Conventions                                                             *)
(*  - A chromosome name is modelled by its rank in Python's string order,  *)
(*    so Python's comparison of two names is the comparison of two ranks.  *)
(*  - A Python float is modelled as a binary floating-point number with a  *)
(*    Prec-bit significand, round-to-nearest-even, no overflow, and a      *)
(*    smallest spacing of 2^-FracBits.  A float is held as the integer     *)
(*    number of 2^-FracBits units it is worth (One is 1.0).                *)
(*  - Python exceptions end the run: pc = "aborted", err names the error.  *)
(***************************************************************************)
EXTENDS Integers, Sequences, FiniteSets, TLC

VARIABLES
    fregions,        \* the lines of the region file, in file order
    fpvals,          \* the SiteRecords bediter(fpvals, col_num) yields, in file order
    random,          \* region_p's random argument
    step,            \* region_p's step argument
    pc,              \* position of the main flow (region_p)
    err,             \* the exception that ended the main flow, or "none"
    piter,           \* number of items taken from chain(bediter, [None]); the
                     \* cursor prow is item piter: a SiteRecord, or None past the end
    nr,              \* _get_ps_in_regions: enumerate index; -1 while unbound
    region_info,     \* _get_ps_in_regions: list of (region_line, region_len, prows)
    cov_pc,          \* the coverage process: "unstarted", "running", "done", "crashed"
    out_val,         \* the shared Value('f') cell
    writes,          \* number of assignments to out_val.value so far
    joins,           \* number of process.join() calls that have returned
    total_coverage,  \* region_p's local read of the cell: <<>> before, <<v>> after
    lags,            \* the lag list handed to acf: <<>> before, <<list>> after
    yielded,         \* the results region_p has yielded so far
    next_region,     \* index in region_info of the next region of the final loop
    args,            \* arguments of the pure function under test (function harness)
    ret,             \* its return value: <<>> before the call, <<v>> after
    frame            \* its local variables while it loops; <<>> when it has none

pipeline_vars == <<fregions, fpvals, random, step, pc, err, piter, nr,
                   region_info, cov_pc, out_val, writes, joins, total_coverage,
                   lags, yielded, next_region>>
harness_vars == <<args, ret, frame>>
vars == <<pipeline_vars, harness_vars>>

\* An unset Python variable is <<>>, a set one <<value>>.
None == <<>>
Some(v) == <<v>>

\* ------------------------------------------------------------------ bounds
Prec == 4            \* significand bits of the modelled Python float
MaxRegions == 2      \* lines in a region file
MaxRecs == 2         \* SiteRecords in a p-value file (pipeline)
MaxCoord == 2        \* largest coordinate (pipeline)
MaxStep == 2         \* largest ACF step
F32Bits == 24        \* significand bits of a C float, the 'f' of Value('f')

\* ---------------------------------------------------------------- helpers
Min(a, b) == IF a <= b THEN a ELSE b

RECURSIVE Pow2(_)
Pow2(j) == IF j <= 0 THEN 1 ELSE 2 * Pow2(j - 1)

RECURSIVE IPow(_, _)
IPow(b, e) == IF e <= 0 THEN 1 ELSE b * IPow(b, e - 1)

RECURSIVE BitLen(_)
BitLen(n) == IF n <= 0 THEN 0 ELSE 1 + BitLen(n \div 2)

\* Sequences over S of length at most n.
SeqsUpTo(S, n) == UNION {[1 .. k -> S] : k \in 0 .. n}

\* ------------------------------------------------- binary floating point
\* Spacing of the floats with `bits` significand bits around the integer n.
Ulp(bits, n) == IF BitLen(n) <= bits THEN 1 ELSE Pow2(BitLen(n) - bits)

\* num/den (in units) rounded to the nearest float with `bits` significand
\* bits, ties to the even significand.
RoundTo(bits, num, den) ==
    LET fl == num \div den
        u  == Ulp(bits, fl)
        lo == (fl \div u) * u
        hi == lo + u
    IN  IF 2 * num < (lo + hi) * den THEN lo
        ELSE IF 2 * num > (lo + hi) * den THEN hi
        ELSE IF (lo \div u) % 2 = 0 THEN lo ELSE hi

FracBits == Prec + 3
One == Pow2(FracBits)
IsFloat(n) == n % Ulp(Prec, n) = 0
\* The Python floats in [0, 1].
Floats01 == {n \in 0 .. One : IsFloat(n)}

Round(num, den) == RoundTo(Prec, num, den)
\* a - b, for a >= b
Fsub(a, b) == Round(a - b, 1)
\* a / b of two Python numbers given as integers (b # 0)
Fdiv(a, b) == Round(a * One, b)

\* sqrt(num/den) (in units) rounded to the nearest float.
RoundSqrt(num, den) ==
    LET below == {y \in 0 .. 2 * One : IsFloat(y) /\ y * y * den <= num}
        lo == CHOOSE y \in below : \A z \in below : z <= y
        hi == lo + Ulp(Prec, lo + 1)
    IN  IF (lo + hi) * (lo + hi) * den < 4 * num THEN hi
        ELSE IF (lo + hi) * (lo + hi) * den > 4 * num THEN lo
        ELSE IF (lo \div Ulp(Prec, lo)) % 2 = 0 THEN lo ELSE hi

\* x ** k for floats 0 <= x <= 1 and k >= 0, correctly rounded (C pow).  The
\* exponent is an integer or half an integer, at most 3.
Fpow(x, k) ==
    IF k = 0 THEN One
    ELSE IF x = 0 THEN 0
    ELSE IF x = One THEN One
    ELSE IF k = One THEN x
    ELSE IF k % One = 0
         THEN Round(IPow(x, k \div One), IPow(One, (k \div One) - 1))
         ELSE \* x ** (a/2) = sqrt(x^a): in units, sqrt(x^a * One^2 / One^a)
              LET a == (2 * k) \div One
              IN  IF a = 1 THEN RoundSqrt(x * One, 1)
                  ELSE RoundSqrt(IPow(x, a), IPow(One, a - 2))

\* ------------------------------------------------------------------ sidak
\* The commented-out alternative of line 139: min(p * k, 1).
sidak_bonferroni(p, region_length, coverage) ==
    Min(Round(p * Fdiv(coverage, region_length), One), One)

\* coverage is the function's total_coverage argument.  region_length is not
\* 0: the division of line 137 raises ZeroDivisionError, which the caller
\* models.
sidak(p, region_length, coverage) ==
    LET k == Fdiv(coverage, region_length)
        p_sidak == Fsub(One, Fpow(Fsub(One, p), k))
    IN  Min(p_sidak, One)

\* The pipeline variables of a run that exercises one pure function only.
PipelineIdle ==
    /\ fregions = <<>> /\ fpvals = <<>> /\ random = FALSE /\ step = 1
    /\ pc = "idle" /\ err = "none" /\ piter = 0 /\ nr = -1
    /\ region_info = <<>> /\ cov_pc = "unstarted" /\ out_val = 0 /\ writes = 0
    /\ joins = 0 /\ total_coverage = None /\ lags = None /\ yielded = <<>>
    /\ next_region = 1

\* Region lengths and coverages whose quotient k is an exponent Fpow takes.
SidakLengths == {1, 2}
SidakCoverages == 0 .. 3

InitSidak ==
    /\ PipelineIdle
    /\ args \in [fn : {"sidak"}, p : Floats01, region_length : SidakLengths,
                  coverage : SidakCoverages]
    /\ ret = None /\ frame = None

CallSidak ==
    /\ args.fn = "sidak" /\ ret = None
    /\ ret' = Some(sidak(args.p, args.region_length, args.coverage))
    /\ UNCHANGED <<pipeline_vars, args, frame>>

SpecSidak == InitSidak /\ [][CallSidak]_vars


\* ----------------------------------------------------------------- calc_w
\* p-values of the truncated product are the exact powers of two 2^-j,
\* j in 0 .. MaxPExp, and 0, held as numerators over PDen.  np.log is the
\* logarithm to base 2 (ln up to the constant factor ln 2), exact on these.
MaxPExp == 2         \* smallest nonzero p-value is 2^-MaxPExp
MaxPs == 3           \* longest p-value vector
PDen == Pow2(MaxPExp)
PVals == {0} \cup {Pow2(j) : j \in 0 .. MaxPExp}
TauVals == 0 .. PDen

\* ps[ps <= truncate_at]
RECURSIVE SelectLe(_, _)
SelectLe(ps, t) ==
    IF ps = <<>> THEN <<>>
    ELSE IF Head(ps) <= t THEN <<Head(ps)>> \o SelectLe(Tail(ps), t)
         ELSE SelectLe(Tail(ps), t)

\* ps[ps < truncate_at]
RECURSIVE SelectLt(_, _)
SelectLt(ps, t) ==
    IF ps = <<>> THEN <<>>
    ELSE IF Head(ps) < t THEN <<Head(ps)>> \o SelectLt(Tail(ps), t)
         ELSE SelectLt(Tail(ps), t)

\* np.log of one value: [inf |-> TRUE] is -inf, else v is the (base 2) log.
NpLog(p) ==
    IF p = 0 THEN [inf |-> TRUE, v |-> 0]
    ELSE [inf |-> FALSE, v |-> (BitLen(p) - 1) - MaxPExp]

\* np.sum of logs; the sum of no terms is 0.0.
RECURSIVE NpSum(_)
NpSum(ls) ==
    IF ls = <<>> THEN [inf |-> FALSE, v |-> 0]
    ELSE LET r == NpSum(Tail(ls))
         IN  IF Head(ls).inf \/ r.inf THEN [inf |-> TRUE, v |-> 0]
             ELSE [inf |-> FALSE, v |-> Head(ls).v + r.v]

\* np.exp of a sum of logs (never positive): the rational num/den.
NpExp(l) ==
    IF l.inf THEN [num |-> 0, den |-> 1]
    ELSE [num |-> 1, den |-> Pow2(0 - l.v)]

calc_w_strict(ps, truncate_at) ==
    NpExp(NpSum([i \in 1 .. Len(SelectLt(ps, truncate_at)) |->
                    NpLog(SelectLt(ps, truncate_at)[i])]))

calc_w(ps, truncate_at) ==
    LET sel == SelectLe(ps, truncate_at)
    IN  NpExp(NpSum([i \in 1 .. Len(sel) |-> NpLog(sel[i])]))

InitCalcW ==
    /\ PipelineIdle
    /\ args \in [fn : {"calc_w"}, ps : SeqsUpTo(PVals, MaxPs), truncate_at : TauVals]
    /\ ret = None /\ frame = None

CallCalcW ==
    /\ args.fn = "calc_w" /\ ret = None
    /\ ret' = Some(calc_w(args.ps, args.truncate_at))
    /\ UNCHANGED <<pipeline_vars, args, frame>>

SpecCalcW == InitCalcW /\ [][CallCalcW]_vars

\* --------------------------------------------------------------- _gen_acf
MaxAcfLen == 10      \* longest region of the lag-list runs
MaxAcfStep == 5      \* largest step of the lag-list runs

\* Python 2 range(start, stop, step) for step >= 1, as a list.
PyRange(start, stop, st) ==
    LET n == IF stop <= start THEN 0 ELSE ((stop - start - 1) \div st) + 1
    IN  [i \in 1 .. n |-> start + (i - 1) * st]

\* Lines 94-95: the lag list, or the IndexError of lags[-1] on an empty list.
gen_acf_lags(max_len, st) ==
    LET lags0 == PyRange(1, max_len, st)
    IN  IF lags0 = <<>> THEN [raised |-> "IndexError", lags |-> <<>>]
        ELSE IF lags0[Len(lags0)] < max_len
             THEN [raised |-> "none", lags |-> Append(lags0, lags0[Len(lags0)] + st)]
             ELSE [raised |-> "none", lags |-> lags0]

InitGenAcf ==
    /\ PipelineIdle
    /\ args \in [fn : {"_gen_acf"}, max_len : 0 .. MaxAcfLen, step : 1 .. MaxAcfStep]
    /\ ret = None /\ frame = None

CallGenAcf ==
    /\ args.fn = "_gen_acf" /\ ret = None
    /\ ret' = Some(gen_acf_lags(args.max_len, args.step))
    /\ UNCHANGED <<pipeline_vars, args, frame>>

SpecGenAcf == InitGenAcf /\ [][CallGenAcf]_vars


\* ----------------------------------------------------- get_total_coverage
\* Chromosome names, by rank in string order.
Chroms == {1, 2}

SiteRecord(c, s, e) == [chrom |-> c, start |-> s, end |-> e]

\* The Python set `bases` of integers is held as a set of disjoint,
\* non-adjacent half-open intervals <<lo, hi>> whose union it is.
\* bases.update(range(start, end)):
BasesUpdate(bases, start, end) ==
    IF start >= end THEN bases
    ELSE LET touching == {iv \in bases : iv[1] <= end /\ start <= iv[2]}
             lo == CHOOSE x \in {start} \cup {iv[1] : iv \in touching} :
                       \A y \in {start} \cup {iv[1] : iv \in touching} : x <= y
             hi == CHOOSE x \in {end} \cup {iv[2] : iv \in touching} :
                       \A y \in {end} \cup {iv[2] : iv \in touching} : x >= y
         IN  (bases \ touching) \cup {<<lo, hi>>}

\* len(bases)
RECURSIVE BasesLen(_)
BasesLen(bases) ==
    IF bases = {} THEN 0
    ELSE LET iv == CHOOSE x \in bases : TRUE
         IN  (iv[2] - iv[1]) + BasesLen(bases \ {iv})

\* Lines 117-123.  groupby starts a new group, and so a new empty `bases`,
\* whenever the chromosome differs from the previous record's.
RECURSIVE CoverageLoop(_, _, _, _)
CoverageLoop(recs, i, bases, total) ==
    IF i > Len(recs) THEN total + BasesLen(bases)
    ELSE IF i > 1 /\ recs[i].chrom # recs[i - 1].chrom
         THEN CoverageLoop(recs, i + 1,
                           BasesUpdate({}, recs[i].start, recs[i].end),
                           total + BasesLen(bases))
         ELSE CoverageLoop(recs, i + 1,
                           BasesUpdate(bases, recs[i].start, recs[i].end), total)

get_total_coverage(recs) == CoverageLoop(recs, 1, {}, 0)

\* Assignment of a Python int to the .value of a Value('f'): a C float.
ToCFloat(n) == RoundTo(F32Bits, n, 1)

\* Line 124, after the loop: the process writes the cell and ends.
CovWrite ==
    /\ cov_pc = "running"
    /\ out_val' = ToCFloat(get_total_coverage(fpvals))
    /\ writes' = writes + 1
    /\ cov_pc' = "done"
    /\ UNCHANGED <<fregions, fpvals, random, step, pc, err, piter, nr,
                   region_info, joins, total_coverage, lags, yielded,
                   next_region, harness_vars>>

\* The process dies before line 124 (an exception of bediter, MemoryError
\* while building `bases`, a signal): the cell keeps the 0.0 of Value('f').
CovCrash ==
    /\ cov_pc = "running"
    /\ cov_pc' = "crashed"
    /\ UNCHANGED <<fregions, fpvals, random, step, pc, err, piter, nr,
                   region_info, out_val, writes, joins, total_coverage, lags,
                   yielded, next_region, harness_vars>>

\* Runs of get_total_coverage alone, on streams in which the records of a
\* chromosome are consecutive; coordinates are small or around 2^24.
MaxCovCoord == 2     \* largest small coordinate of the coverage runs
MaxCovRecs == 3      \* SiteRecords of the coverage runs
CovCoords == (0 .. MaxCovCoord) \cup {Pow2(F32Bits), Pow2(F32Bits) + 1}
CovRecords == {SiteRecord(c, s, e) : c \in Chroms,
               s \in CovCoords, e \in CovCoords}

ChromsConsecutive(recs) ==
    \A i, j \in 1 .. Len(recs) :
        i < j /\ recs[i].chrom = recs[j].chrom =>
            \A k \in i .. j : recs[k].chrom = recs[i].chrom

InitCoverage ==
    /\ fregions = <<>> /\ random = FALSE /\ step = 1
    /\ fpvals \in {r \in SeqsUpTo({x \in CovRecords : x.start <= x.end},
                                  MaxCovRecs) : ChromsConsecutive(r)}
    /\ pc = "idle" /\ err = "none" /\ piter = 0 /\ nr = -1
    /\ region_info = <<>> /\ cov_pc = "running" /\ out_val = 0 /\ writes = 0
    /\ joins = 0 /\ total_coverage = None /\ lags = None /\ yielded = <<>>
    /\ next_region = 1
    /\ args = [fn |-> "get_total_coverage"] /\ ret = None /\ frame = None

SpecCoverage == InitCoverage /\ [][CovWrite \/ CovCrash]_vars


\* ----------------------------------------------------- _get_ps_in_regions
\* A line of the region file.  A region line has comment = FALSE.  A line
\* starting with "#" has comment = TRUE and the chromosome name 0, a name
\* no SiteRecord carries; its tokens 1 and 2 are integers iff parses.
RegionLine(c, s, e) ==
    [comment |-> FALSE, parses |-> TRUE, chrom |-> c, start |-> s, end |-> e]
CommentHeader ==
    [comment |-> TRUE, parses |-> FALSE, chrom |-> 0, start |-> 0, end |-> 0]
CommentRegion ==
    [comment |-> TRUE, parses |-> TRUE, chrom |-> 0, start |-> 0, end |-> 1]

\* Python's (a1, a2) >= (b1, b2) on tuples.
TupleGe(a1, a2, b1, b2) == a1 > b1 \/ (a1 = b1 /\ a2 >= b2)

\* Python's (a1, a2) > (b1, b2) on tuples.
TupleGt(a1, a2, b1, b2) == a1 > b1 \/ (a1 = b1 /\ a2 > b2)

\* Line 159 with > for >=.
CollectTestStrict(rchrom, rend, row) ==
    TupleGt(rchrom, rend, row.chrom, row.end)

\* The test of line 159.
CollectTest(rchrom, rend, row) == TupleGe(rchrom, rend, row.chrom, row.end)

\* Lines 156-158, from cursor item i.  The cursor is None iff i > Len(recs);
\* the loop test then raises TypeError.
RECURSIVE SkipLoop(_, _, _, _)
SkipLoop(recs, i, rchrom, rstart) ==
    IF i > Len(recs) THEN [piter |-> i, raised |-> TRUE]
    ELSE IF recs[i].chrom # rchrom \/ recs[i].start < rstart
         THEN IF i + 1 > Len(recs)
              THEN [piter |-> i + 1, raised |-> FALSE]
              ELSE SkipLoop(recs, i + 1, rchrom, rstart)
         ELSE [piter |-> i, raised |-> FALSE]

\* Lines 159-162, from cursor item i.
RECURSIVE CollectLoop(_, _, _, _, _)
CollectLoop(recs, i, rchrom, rend, prows) ==
    IF i > Len(recs) THEN [piter |-> i, raised |-> TRUE, prows |-> prows]
    ELSE IF CollectTest(rchrom, rend, recs[i])
         THEN IF i + 1 > Len(recs)
              THEN [piter |-> i + 1, raised |-> FALSE,
                    prows |-> Append(prows, recs[i])]
              ELSE CollectLoop(recs, i + 1, rchrom, rend, Append(prows, recs[i]))
         ELSE [piter |-> i, raised |-> FALSE, prows |-> prows]

\* The assert of line 163 compiled away.
AssertProwsOff(prows) == TRUE
\* The assert of line 163.
AssertProws(prows) == prows # <<>>

Abort(e) == pc' = "aborted" /\ err' = e

\* Lines 147-148: the chain is built and its first item taken.
BeginMatch ==
    /\ pc = "begin_match"
    /\ piter' = 1
    /\ pc' = "match"
    /\ UNCHANGED <<fregions, fpvals, random, step, err, nr, region_info,
                   cov_pc, out_val, writes, joins, total_coverage, lags,
                   yielded, next_region, harness_vars>>

\* The loop body with the "#" of a comment line stripped from its first
\* token, so that "#chr1" names the chromosome of rank 1.
MatchRegionStrippingHash ==
    /\ pc = "match"
    /\ nr + 2 <= Len(fregions)
    /\ LET line == fregions[nr + 2]
           rchrom == IF line.comment THEN 1 ELSE line.chrom
           skip == SkipLoop(fpvals, piter, rchrom, line.start)
           coll == CollectLoop(fpvals, skip.piter, rchrom, line.end, <<>>)
       IN  /\ nr' = nr + 1
           /\ IF ~line.parses
              THEN Abort("ValueError") /\ UNCHANGED <<piter, region_info>>
              ELSE IF skip.raised
              THEN Abort("TypeError") /\ piter' = skip.piter
                   /\ UNCHANGED region_info
              ELSE IF coll.raised
              THEN Abort("TypeError") /\ piter' = coll.piter
                   /\ UNCHANGED region_info
              ELSE IF ~AssertProws(coll.prows)
              THEN Abort("AssertionError:163") /\ piter' = coll.piter
                   /\ UNCHANGED region_info
              ELSE /\ piter' = coll.piter
                   /\ region_info' = Append(region_info,
                          [region_line |-> line,
                           region_len |-> line.end - line.start,
                           prows |-> coll.prows])
                   /\ UNCHANGED <<pc, err>>
    /\ UNCHANGED <<fregions, fpvals, random, step, cov_pc, out_val, writes,
                   joins, total_coverage, lags, yielded, next_region,
                   harness_vars>>

\* The loop body with a cursor that is rewound to the first SiteRecord for
\* every region (a nested scan instead of a single sweep).
MatchRegionRewinding ==
    /\ pc = "match"
    /\ nr + 2 <= Len(fregions)
    /\ LET line == fregions[nr + 2]
           skip == SkipLoop(fpvals, 1, line.chrom, line.start)
           coll == CollectLoop(fpvals, skip.piter, line.chrom, line.end, <<>>)
       IN  /\ nr' = nr + 1
           /\ IF ~line.parses
              THEN Abort("ValueError") /\ UNCHANGED <<piter, region_info>>
              ELSE IF skip.raised
              THEN Abort("TypeError") /\ piter' = skip.piter
                   /\ UNCHANGED region_info
              ELSE IF coll.raised
              THEN Abort("TypeError") /\ piter' = coll.piter
                   /\ UNCHANGED region_info
              ELSE IF ~AssertProws(coll.prows)
              THEN Abort("AssertionError:163") /\ piter' = coll.piter
                   /\ UNCHANGED region_info
              ELSE /\ piter' = coll.piter
                   /\ region_info' = Append(region_info,
                          [region_line |-> line,
                           region_len |-> line.end - line.start,
                           prows |-> coll.prows])
                   /\ UNCHANGED <<pc, err>>
    /\ UNCHANGED <<fregions, fpvals, random, step, cov_pc, out_val, writes,
                   joins, total_coverage, lags, yielded, next_region,
                   harness_vars>>

\* One iteration of the loop of lines 149-166, on the next line of the file.
MatchRegion ==
    /\ pc = "match"
    /\ nr + 2 <= Len(fregions)
    /\ LET line == fregions[nr + 2]
           skip == SkipLoop(fpvals, piter, line.chrom, line.start)
           coll == CollectLoop(fpvals, skip.piter, line.chrom, line.end, <<>>)
       IN  /\ nr' = nr + 1
           /\ IF ~line.parses
              THEN Abort("ValueError") /\ UNCHANGED <<piter, region_info>>
              ELSE IF skip.raised
              THEN Abort("TypeError") /\ piter' = skip.piter
                   /\ UNCHANGED region_info
              ELSE IF coll.raised
              THEN Abort("TypeError") /\ piter' = coll.piter
                   /\ UNCHANGED region_info
              ELSE IF ~AssertProws(coll.prows)
              THEN Abort("AssertionError:163") /\ piter' = coll.piter
                   /\ UNCHANGED region_info
              ELSE /\ piter' = coll.piter
                   /\ region_info' = Append(region_info,
                          [region_line |-> line,
                           region_len |-> line.end - line.start,
                           prows |-> coll.prows])
                   /\ UNCHANGED <<pc, err>>
    /\ UNCHANGED <<fregions, fpvals, random, step, cov_pc, out_val, writes,
                   joins, total_coverage, lags, yielded, next_region,
                   harness_vars>>

\* Lines 167-168, after the last line: nr is unbound if the file had no
\* line at all.
MatchReturn ==
    /\ pc = "match"
    /\ nr + 2 > Len(fregions)
    /\ IF nr = -1 THEN Abort("UnboundLocalError")
       ELSE IF nr + 1 # Len(region_info) THEN Abort("AssertionError:167")
       ELSE pc' = "acf" /\ UNCHANGED err
    /\ UNCHANGED <<fregions, fpvals, random, step, piter, nr, region_info,
                   cov_pc, out_val, writes, joins, total_coverage, lags,
                   yielded, next_region, harness_vars>>

\* Runs of _get_ps_in_regions alone, on a region stream and a record stream
\* that are both non-decreasing in (chromosome, start) under one total
\* order of the chromosome names, which need not be the string order.  The
\* region file has a line: region_p has exited at line 175 otherwise.
MaxMatchCoord == 3   \* largest coordinate of the matcher runs
MaxMatchRecs == 3    \* SiteRecords of the matcher runs
ChromOrders == {f \in [Chroms -> 1 .. Cardinality(Chroms)] :
                   \A a, b \in Chroms : a # b => f[a] # f[b]}
MatchCoords == 0 .. MaxMatchCoord

\* Non-decreasing in (chromosome, start), chromosomes ranked by rank.
SortedBy(rank, rows) ==
    \A i \in 1 .. Len(rows) - 1 :
        \/ rank[rows[i].chrom] < rank[rows[i + 1].chrom]
        \/ /\ rows[i].chrom = rows[i + 1].chrom
           /\ rows[i].start <= rows[i + 1].start

InitMatch ==
    /\ random = FALSE /\ step = 1
    /\ \E rank \in ChromOrders :
          /\ fregions \in {r \in SeqsUpTo({RegionLine(c, s, e) : c \in Chroms,
                                  s \in MatchCoords, e \in MatchCoords},
                                  MaxRegions) :
                              /\ r # <<>>
                              /\ \A i \in 1 .. Len(r) : r[i].start < r[i].end
                              /\ SortedBy(rank, r)}
          /\ fpvals \in {r \in SeqsUpTo({SiteRecord(c, s, e) : c \in Chroms,
                                  s \in MatchCoords, e \in MatchCoords},
                                  MaxMatchRecs) :
                              /\ \A i \in 1 .. Len(r) : r[i].start < r[i].end
                              /\ SortedBy(rank, r)}
    /\ pc = "begin_match" /\ err = "none" /\ piter = 0 /\ nr = -1
    /\ region_info = <<>> /\ cov_pc = "unstarted" /\ out_val = 0 /\ writes = 0
    /\ joins = 0 /\ total_coverage = None /\ lags = None /\ yielded = <<>>
    /\ next_region = 1
    /\ args = [fn |-> "_get_ps_in_regions"] /\ ret = None /\ frame = None

SpecMatch == InitMatch /\ [][BeginMatch \/ MatchRegion \/ MatchReturn]_vars

\* Runs of _get_ps_in_regions alone on any region lines and any SiteRecords,
\* sorted or not, overlapping or not.
MaxAnyCoord == 2     \* largest coordinate of the runs on arbitrary streams
AnyCoords == 0 .. MaxAnyCoord

InitMatchAny ==
    /\ random = FALSE /\ step = 1
    /\ fregions \in SeqsUpTo({x \in {RegionLine(c, s, e) : c \in Chroms,
                                   s \in AnyCoords, e \in AnyCoords} :
                                   x.start <= x.end},
                             MaxRegions) \ {<<>>}
    /\ fpvals \in SeqsUpTo({x \in {SiteRecord(c, s, e) : c \in Chroms,
                                 s \in AnyCoords, e \in AnyCoords} :
                                 x.start <= x.end},
                           MaxMatchRecs)
    /\ pc = "begin_match" /\ err = "none" /\ piter = 0 /\ nr = -1
    /\ region_info = <<>> /\ cov_pc = "unstarted" /\ out_val = 0 /\ writes = 0
    /\ joins = 0 /\ total_coverage = None /\ lags = None /\ yielded = <<>>
    /\ next_region = 1
    /\ args = [fn |-> "_get_ps_in_regions"] /\ ret = None /\ frame = None

SpecMatchAny ==
    InitMatchAny /\ [][BeginMatch \/ MatchRegion \/ MatchReturn]_vars


\* --------------------------------------------------------------- region_p
\* Number of lines of the region file that do not start with "#" (line 173).
RECURSIVE NonCommentLines(_)
NonCommentLines(lines) ==
    IF lines = <<>> THEN 0
    ELSE (IF Head(lines).comment THEN 0 ELSE 1) + NonCommentLines(Tail(lines))

\* Lines 173-175.
PreCheck ==
    /\ pc = "precheck"
    /\ IF NonCommentLines(fregions) = 0
       THEN pc' = "exited" /\ err' = "SystemExit"
       ELSE pc' = "start_coverage" /\ UNCHANGED err
    /\ UNCHANGED <<fregions, fpvals, random, step, piter, nr, region_info,
                   cov_pc, out_val, writes, joins, total_coverage, lags,
                   yielded, next_region, harness_vars>>

\* Line 177 (_get_total_coverage, lines 126-131): the process is started.
StartCoverage ==
    /\ pc = "start_coverage"
    /\ cov_pc' = "running"
    /\ pc' = "begin_match"
    /\ UNCHANGED <<fregions, fpvals, random, step, err, piter, nr,
                   region_info, out_val, writes, joins, total_coverage, lags,
                   yielded, next_region, harness_vars>>

\* max(r[1] for r in region_info), region_info not empty (line 91).
MaxRegionLen(info) ==
    CHOOSE m \in {info[i].region_len : i \in 1 .. Len(info)} :
        \A i \in 1 .. Len(info) : info[i].region_len <= m

\* Line 180 (_gen_acf, lines 88-110): the lag list is built and handed to acf.
GenAcf ==
    /\ pc = "acf"
    /\ LET r == gen_acf_lags(MaxRegionLen(region_info), step)
       IN  IF r.raised # "none"
           THEN Abort(r.raised) /\ UNCHANGED lags
           ELSE lags' = Some(r.lags) /\ pc' = "join" /\ UNCHANGED err
    /\ UNCHANGED <<fregions, fpvals, random, step, piter, nr, region_info,
                   cov_pc, out_val, writes, joins, total_coverage,
                   yielded, next_region, harness_vars>>

\* process.join() returns although the process still runs.
JoinNoWait ==
    /\ pc = "join"
    /\ joins' = joins + 1
    /\ pc' = "read"
    /\ UNCHANGED <<fregions, fpvals, random, step, err, piter, nr,
                   region_info, cov_pc, out_val, writes, total_coverage, lags,
                   yielded, next_region, harness_vars>>

\* Line 181: process.join() returns once the process has ended, however it
\* ended; its exit code is not looked at.
Join ==
    /\ pc = "join"
    /\ cov_pc \in {"done", "crashed"}
    /\ joins' = joins + 1
    /\ pc' = "read"
    /\ UNCHANGED <<fregions, fpvals, random, step, err, piter, nr,
                   region_info, cov_pc, out_val, writes, total_coverage, lags,
                   yielded, next_region, harness_vars>>

\* Line 182.
ReadCoverage ==
    /\ pc = "read"
    /\ total_coverage' = Some(out_val)
    /\ pc' = "sample"
    /\ UNCHANGED <<fregions, fpvals, random, step, err, piter, nr,
                   region_info, cov_pc, out_val, writes, joins, lags,
                   yielded, next_region, harness_vars>>

\* Lines 187-192 without the 1/0 of line 189: the uniform mode goes on with
\* sample_distribution = None.
SampleDistributionUniform ==
    /\ pc = "sample"
    /\ pc' = "loop" /\ UNCHANGED err
    /\ UNCHANGED <<fregions, fpvals, random, step, piter, nr, region_info,
                   cov_pc, out_val, writes, joins, total_coverage, lags,
                   yielded, next_region, harness_vars>>

\* Lines 187-192.
SampleDistribution ==
    /\ pc = "sample"
    /\ IF random THEN Abort("ZeroDivisionError")
       ELSE pc' = "loop" /\ UNCHANGED err
    /\ UNCHANGED <<fregions, fpvals, random, step, piter, nr, region_info,
                   cov_pc, out_val, writes, joins, total_coverage, lags,
                   yielded, next_region, harness_vars>>

\* What stouffer_liptak (not part of this file) may return for a region:
\* OK or not, and a combined p-value, here 0.0 or 1.0.
CombinerResults == [OK : BOOLEAN, p : {0, One}]

\* The same iteration with a region whose combiner answer is not OK skipped.
RegionStepSkipping(slk) ==
    LET r == region_info[next_region]
    IN  IF ~slk.OK
        THEN next_region' = next_region + 1 /\ UNCHANGED <<pc, err, yielded>>
        ELSE IF r.region_len = 0
        THEN Abort("ZeroDivisionError") /\ UNCHANGED <<yielded, next_region>>
        ELSE /\ yielded' = Append(yielded,
                    [region_line |-> r.region_line, slk_p |-> slk.p,
                     sidak_slk_p |-> sidak(slk.p, r.region_len,
                                           total_coverage[1])])
             /\ next_region' = next_region + 1
             /\ UNCHANGED <<pc, err>>

\* One iteration of the loop of lines 193-220 with the combiner's answer slk.
RegionStep(slk) ==
    LET r == region_info[next_region]
    IN  IF ~slk.OK
        THEN Abort("AssertionError:202") /\ UNCHANGED <<yielded, next_region>>
        ELSE IF r.region_len = 0
        THEN Abort("ZeroDivisionError") /\ UNCHANGED <<yielded, next_region>>
        ELSE /\ yielded' = Append(yielded,
                    [region_line |-> r.region_line, slk_p |-> slk.p,
                     sidak_slk_p |-> sidak(slk.p, r.region_len,
                                           total_coverage[1])])
             /\ next_region' = next_region + 1
             /\ UNCHANGED <<pc, err>>

ProcessRegion ==
    /\ pc = "loop"
    /\ next_region <= Len(region_info)
    /\ \E slk \in CombinerResults : RegionStep(slk)
    /\ UNCHANGED <<fregions, fpvals, random, step, piter, nr, region_info,
                   cov_pc, out_val, writes, joins, total_coverage, lags,
                   harness_vars>>

\* The loop of line 193 ends: the generator is exhausted.
Finish ==
    /\ pc = "loop"
    /\ next_region > Len(region_info)
    /\ pc' = "done"
    /\ UNCHANGED <<fregions, fpvals, random, step, err, piter, nr,
                   region_info, cov_pc, out_val, writes, joins,
                   total_coverage, lags, yielded, next_region, harness_vars>>

Coords == 0 .. MaxCoord
RegionLines == {RegionLine(c, s, e) : c \in Chroms, s \in Coords, e \in Coords}
SiteRecords == {SiteRecord(c, s, e) : c \in Chroms, s \in Coords, e \in Coords}

Init ==
    /\ fregions \in SeqsUpTo({l \in RegionLines : l.start <= l.end}
                               \cup {CommentHeader, CommentRegion}, MaxRegions)
    /\ fpvals \in SeqsUpTo({r \in SiteRecords : r.start <= r.end}, MaxRecs)
    /\ random \in BOOLEAN
    /\ step \in 1 .. MaxStep
    /\ pc = "precheck" /\ err = "none" /\ piter = 0 /\ nr = -1
    /\ region_info = <<>> /\ cov_pc = "unstarted" /\ out_val = 0 /\ writes = 0
    /\ joins = 0 /\ total_coverage = None /\ lags = None /\ yielded = <<>>
    /\ next_region = 1
    /\ args = [fn |-> "region_p"] /\ ret = None /\ frame = None

Next ==
    \/ PreCheck
    \/ StartCoverage
    \/ BeginMatch
    \/ MatchRegion
    \/ MatchReturn
    \/ GenAcf
    \/ Join
    \/ ReadCoverage
    \/ SampleDistribution
    \/ ProcessRegion
    \/ Finish
    \/ CovWrite
    \/ CovCrash

Spec == Init /\ [][Next]_vars


\* ================================================================= claims
\* A record lies within a region's bounds.
Within(row, line) ==
    row.chrom = line.chrom /\ row.start >= line.start /\ row.end <= line.end

\* Number of occurrences of x in the sequence q.
Count(x, q) == Cardinality({i \in 1 .. Len(q) : q[i] = x})

\* _get_ps_in_regions has returned normally (the run may have ended later).
MatcherReturned ==
    \/ pc \in {"acf", "join", "read", "sample", "loop", "done"}
    \/ pc = "aborted" /\ err \in {"IndexError", "ZeroDivisionError",
                                  "AssertionError:202"}

StringRank == [c \in Chroms |-> c]

\* No two rows of the stream share a base: on one chromosome each row ends
\* where or before the next one starts.
NonOverlapping(rows) ==
    \A i, j \in 1 .. Len(rows) :
        i < j /\ rows[i].chrom = rows[j].chrom => rows[i].end <= rows[j].start

\* The inputs C1 is about: both streams sorted by (chromosome, start) in the
\* order of the chromosome names, non-overlapping, intervals not empty, and
\* every region containing a record.
C1_Inputs ==
    /\ SortedBy(StringRank, fregions) /\ SortedBy(StringRank, fpvals)
    /\ NonOverlapping(fregions) /\ NonOverlapping(fpvals)
    /\ \A i \in 1 .. Len(fregions) :
           \E j \in 1 .. Len(fpvals) : Within(fpvals[j], fregions[i])

\* The rows of q appear in fpvals in the same order (rows are distinct).
InSourceOrder(q) ==
    \A a, b \in 1 .. Len(q) :
        a < b => \E i, j \in 1 .. Len(fpvals) :
                     i < j /\ fpvals[i] = q[a] /\ fpvals[j] = q[b]

\* C1: on sorted, non-overlapping streams in which every region contains a
\* record, _get_ps_in_regions does not fail, and once it has returned there
\* is exactly one entry per region, in region-file order; every record that
\* lies within a region's bounds appears exactly once in that region's entry
\* and in no other entry; the records of an entry are in source order.
C1_OneEntryPerRegion ==
    C1_Inputs =>
        /\ pc # "aborted"
        /\ pc = "acf" =>
            /\ Len(region_info) = Len(fregions)
            /\ \A i \in 1 .. Len(fregions) :
                   /\ region_info[i].region_line = fregions[i]
                   /\ InSourceOrder(region_info[i].prows)
                   /\ \A j \in 1 .. Len(fpvals) :
                          Within(fpvals[j], fregions[i]) =>
                              \A k \in 1 .. Len(region_info) :
                                  Count(fpvals[j], region_info[k].prows)
                                      = (IF k = i THEN 1 ELSE 0)

\* Two regions matched, one of them with two records.
C1_Witness ==
    /\ C1_Inputs /\ pc = "acf" /\ Len(region_info) = 2
    /\ \E i \in 1 .. 2 : Len(region_info[i].prows) = 2

\* C2: on streams sorted under any shared order of the chromosome names,
\* every record assigned to a region has the region's chromosome, starts at
\* or after the region's start and ends at or before the region's end.
C2_AssignedWithinRegion ==
    \A i \in 1 .. Len(region_info) :
        \A j \in 1 .. Len(region_info[i].prows) :
            Within(region_info[i].prows[j], region_info[i].region_line)


\* C3: an input-contract violation ends the run before anything is yielded.
\* A region file without a non-comment line never gets past the pre-check;
\* once _get_ps_in_regions has returned there is one assignment per line of
\* the region file, none of them empty, and every line is a region that
\* contains a record; and nothing is yielded unless it has returned.
C3_ContractViolationsAbort ==
    /\ NonCommentLines(fregions) = 0 =>
           pc \in {"precheck", "exited"} /\ yielded = <<>>
    /\ \A i \in 1 .. Len(region_info) : region_info[i].prows # <<>>
    /\ MatcherReturned =>
           /\ Len(region_info) = Len(fregions)
           /\ \A i \in 1 .. Len(fregions) :
                  /\ region_info[i].region_line = fregions[i]
                  /\ \E j \in 1 .. Len(fpvals) : Within(fpvals[j], fregions[i])
    /\ yielded # <<>> => MatcherReturned

\* A region reached after the record stream was exhausted by the region
\* before it: the run has ended in the matcher, nothing was yielded.
C3_Witness ==
    /\ pc = "aborted" /\ err = "TypeError"
    /\ Len(region_info) = 1 /\ Len(fregions) = 2
    /\ piter = Len(fpvals) + 1
    /\ yielded = <<>>

\* C4: the coverage process is started before _gen_acf begins; the main
\* flow joins it at most once, and exactly once before it reads the cell,
\* before any Sidak correction and in every run that completes; the cell is
\* written at most once, by the process, and the process is over (it cannot
\* write) when the main flow reads the cell and ever after.
C4_OneShotJoin ==
    /\ (pc \in {"acf", "join", "read", "sample", "loop", "done"} \/ lags # None)
           => cov_pc # "unstarted"
    /\ joins <= 1
    /\ (pc \in {"read", "sample", "loop", "done"} \/ total_coverage # None
           \/ yielded # <<>>) => joins = 1
    /\ joins = 1 => cov_pc \in {"done", "crashed"}
    /\ writes <= 1
    /\ writes = 1 <=> cov_pc = "done"
    /\ total_coverage # None => total_coverage[1] = out_val

\* The process wrote the cell, the main flow joined and read it and has
\* yielded a Sidak-corrected result.
C4_Witness ==
    /\ writes = 1 /\ joins = 1 /\ total_coverage # None /\ yielded # <<>>

\* C5: when the coverage process has crashed (it ended without writing the
\* cell), region_p yields nothing.
C5_CrashIsFatal == cov_pc = "crashed" => yielded = <<>>

\* C6: the region lines of the results yielded so far are a prefix of the
\* region sequence; a completed run has yielded one result per region; a run
\* the combiner ended with OK = False at a region has yielded the results of
\* the regions before it and nothing else.
C6_YieldsInRegionOrder ==
    /\ Len(yielded) <= Len(region_info)
    /\ \A i \in 1 .. Len(yielded) :
           /\ yielded[i].region_line = region_info[i].region_line
           /\ yielded[i].region_line = fregions[i]
    /\ pc = "done" =>
           Len(yielded) = Len(region_info) /\ Len(yielded) = Len(fregions)
    /\ (pc = "aborted" /\ err = "AssertionError:202") =>
           Len(yielded) = next_region - 1 /\ next_region <= Len(region_info)

\* The first region was yielded and the combiner was not OK on the second.
C6_Witness ==
    /\ pc = "aborted" /\ err = "AssertionError:202"
    /\ Len(yielded) = 1 /\ Len(region_info) = 2


\* The coordinates at which a record of chromosome c starts or ends.
EndPoints(recs, c) ==
    UNION {{recs[i].start, recs[i].end} :
               i \in {j \in 1 .. Len(recs) : recs[j].chrom = c}}

\* Number of integer positions of chromosome c that lie in [start, end) of
\* some record: between two neighbouring end points all positions are
\* covered or none is.
RECURSIVE CoveredBetween(_, _, _)
CoveredBetween(recs, c, points) ==
    IF Cardinality(points) < 2 THEN 0
    ELSE LET a == CHOOSE x \in points : \A y \in points : x <= y
             rest == points \ {a}
             b == CHOOSE x \in rest : \A y \in rest : x <= y
             covered == \E i \in 1 .. Len(recs) :
                            /\ recs[i].chrom = c
                            /\ recs[i].start <= a /\ b <= recs[i].end
         IN  (IF covered THEN b - a ELSE 0) + CoveredBetween(recs, c, rest)

RECURSIVE UnionCoverage(_, _)
UnionCoverage(recs, chroms) ==
    IF chroms = {} THEN 0
    ELSE LET c == CHOOSE x \in chroms : TRUE
         IN  CoveredBetween(recs, c, EndPoints(recs, c))
                 + UnionCoverage(recs, chroms \ {c})

\* C7: on a stream in which the records of a chromosome are consecutive,
\* the value get_total_coverage has written is the number of distinct base
\* positions in the union of the records' intervals, summed over the
\* chromosomes.
C7_CoverageIsUnionSize ==
    cov_pc = "done" => out_val = UnionCoverage(fpvals, Chroms)

\* C8: with k = total_coverage / region_length, sidak returns 0 for p = 0,
\* 1 for p = 1 and k > 0, p for k = 1, is non-decreasing in p for fixed k,
\* and never returns more than 1.
C8_SidakProperties ==
    ret # None =>
        LET k == Fdiv(args.coverage, args.region_length)
        IN  /\ args.p = 0 => ret[1] = 0
            /\ (args.p = One /\ k > 0) => ret[1] = One
            /\ k = One => ret[1] = args.p
            /\ \A q \in Floats01 :
                   q <= args.p =>
                       sidak(q, args.region_length, args.coverage) <= ret[1]
            /\ ret[1] <= One

\* The product of the numerators of a p-value vector.
RECURSIVE ProductOf(_)
ProductOf(ps) == IF ps = <<>> THEN 1 ELSE Head(ps) * ProductOf(Tail(ps))

\* The rational w is the product of the p-values ps.
IsProductOf(w, ps) == w.num * IPow(PDen, Len(ps)) = w.den * ProductOf(ps)

\* The p-values of ps that are <= t, in order.
AtMost(ps, t) == SelectSeq(ps, LAMBDA x : x <= t)

C10_LagList ==
    (ret # None /\ args.max_len >= 1 /\ args.step >= 1) =>
        /\ ret[1].raised = "none"
        /\ LET l == ret[1].lags
           IN  /\ l # <<>>
               /\ l[1] = 1
               /\ \A i \in 1 .. Len(l) - 1 : l[i + 1] = l[i] + args.step
               /\ l[Len(l)] >= args.max_len
               /\ l[Len(l)] < args.max_len + args.step


\* --------------------------------------------------------- gen_correlated
MaxSigma == 2        \* largest absolute value of an entry of sigma
MaxN == 1            \* columns of a draw (the argument n)
MaxPool == 2         \* p-values of the observed pool
MaxRetries == 3      \* iterations of the retry loop a run is followed for

\* Square matrices of integers as sequences of rows; chol below is written
\* out for one and two rows.
SigmaDims == {1, 2}
Matrices(m) == [1 .. m -> [1 .. m -> (0 - MaxSigma) .. MaxSigma]]

\* numpy.linalg.cholesky reads the lower triangle, column by column: the
\* pivot of column j is sigma[j][j] minus the squares of the entries of L
\* already found in row j, and LinAlgError is raised when a pivot is not
\* positive.  For up to two rows the pivots are a, then d - c*c/a, whose
\* sign, a being positive, is the sign of a*d - c*c.  TRUE iff no
\* LinAlgError is raised.
chol(sigma) ==
    IF Len(sigma) = 1 THEN sigma[1][1] > 0
    ELSE /\ sigma[1][1] > 0
         /\ sigma[1][1] * sigma[2][2] - sigma[2][1] * sigma[2][1] > 0

\* Values a uniform draw of line 38 may contain (two stand for all).
UniformVals == {1, 2}

\* The matrices X lines 38-42 can produce, flattened, for `size` cells; the
\* empty set when random_integers(0, -1) raises ValueError (empty pool).
Draws(observed, size) ==
    IF observed = None THEN [1 .. size -> UniformVals]
    ELSE IF Len(observed[1]) = 0 THEN {}
    ELSE {[k \in 1 .. size |-> observed[1][idxs[k] + 1]] :
            idxs \in [1 .. size -> 0 .. Len(observed[1]) - 1]}

\* An iteration that lets the LinAlgError of line 44 leave the function.
GenCorrelatedNoRetry ==
    /\ args.fn = "gen_correlated" /\ ret = None
    /\ frame.iterations < MaxRetries
    /\ LET size == Len(args.sigma) * args.n
       IN  IF Draws(args.observed, size) = {}
           THEN /\ ret' = Some([raised |-> "ValueError"])
                /\ UNCHANGED frame
           ELSE \E X \in Draws(args.observed, size) :
                  /\ frame' = [iterations |-> frame.iterations + 1,
                               chols |-> frame.chols + 1,
                               failures |-> frame.failures +
                                            (IF chol(args.sigma) THEN 0 ELSE 1),
                               X |-> X]
                  /\ ret' = IF chol(args.sigma)
                            THEN Some([raised |-> "none"])
                            ELSE Some([raised |-> "LinAlgError"])
    /\ UNCHANGED <<pipeline_vars, args>>

\* One iteration of the loop of lines 35-46: the draw of lines 37-42, then
\* line 44, where chol(sigma) is evaluated before qnorm(X); the value
\* returned, pnorm(L * qnorm(X)), is not computed.  An exception other than
\* LinAlgError leaves the function.
GenCorrelatedIter ==
    /\ args.fn = "gen_correlated" /\ ret = None
    /\ frame.iterations < MaxRetries
    /\ LET size == Len(args.sigma) * args.n
       IN  IF Draws(args.observed, size) = {}
           THEN /\ ret' = Some([raised |-> "ValueError"])
                /\ UNCHANGED frame
           ELSE \E X \in Draws(args.observed, size) :
                  /\ frame' = [iterations |-> frame.iterations + 1,
                               chols |-> frame.chols + 1,
                               failures |-> frame.failures +
                                            (IF chol(args.sigma) THEN 0 ELSE 1),
                               X |-> X]
                  /\ ret' = IF chol(args.sigma)
                            THEN Some([raised |-> "none"])
                            ELSE ret
    /\ UNCHANGED <<pipeline_vars, args>>

Pools == {None} \cup {Some(o) : o \in SeqsUpTo(UniformVals, MaxPool)}

InitGenCorrelated ==
    /\ PipelineIdle
    /\ \E m \in SigmaDims :
         args \in [fn : {"gen_correlated"}, sigma : Matrices(m),
                   n : 0 .. MaxN, observed : Pools]
    /\ ret = None
    /\ frame = [iterations |-> 0, chols |-> 0, failures |-> 0, X |-> <<>>]

SpecGenCorrelated == InitGenCorrelated /\ [][GenCorrelatedIter]_vars


EmptyPool == args.observed # None /\ Len(args.observed[1]) = 0

MaxNsims == 21       \* largest requested number of draws (the argument nsims)

\* nsims/10 of lines 59 and 67: nsims is an int (argparse type=int, line
\* 239) and the file is Python 2, so / is the floor division of two ints.
BatchSize(nsims) == nsims \div 10

\* One pass of the loop of lines 58-60: gen_correlated returns a matrix Y of
\* nsims/10 columns, Y.T has that many rows, each is evaluated by calc_w and
\* some number of them, which depends on the draw, is added to B.
SimBatch ==
    /\ args.fn = "sim" /\ ret = None
    /\ frame.i < 10
    /\ \E counted \in 0 .. BatchSize(args.nsims) :
         frame' = [i |-> frame.i + 1,
                   evaluated |-> frame.evaluated + BatchSize(args.nsims),
                   counted |-> frame.counted + counted]
    /\ UNCHANGED <<pipeline_vars, args, ret>>

\* Line 61: B / nsims, B being a float; held as the fraction num / den.
SimReturn ==
    /\ args.fn = "sim" /\ ret = None
    /\ frame.i = 10
    /\ ret' = Some([raised |-> "none", num |-> frame.counted, den |-> args.nsims])
    /\ UNCHANGED <<pipeline_vars, args, frame>>

\* One pass of the loop of lines 66-71: every row of Y.T is combined; a
\* row whose combination is not OK ends sl_sim by the 1/0 of line 70, and
\* the rows with s["p"] < w0, a number that depends on the draw, are counted.
SlSimBatch ==
    /\ args.fn = "sl_sim" /\ ret = None
    /\ frame.i < 10
    /\ \/ /\ \E counted \in 0 .. BatchSize(args.nsims) :
               frame' = [i |-> frame.i + 1,
                         evaluated |-> frame.evaluated + BatchSize(args.nsims),
                         counted |-> frame.counted + counted]
          /\ UNCHANGED ret
       \/ /\ \E row \in 1 .. BatchSize(args.nsims) :
               \E counted \in 0 .. row - 1 :
                  frame' = [i |-> frame.i,
                            evaluated |-> frame.evaluated + row,
                            counted |-> frame.counted + counted]
          /\ ret' = Some([raised |-> "ZeroDivisionError", num |-> 0, den |-> 1])
    /\ UNCHANGED <<pipeline_vars, args>>

\* Line 73: N / float(nsims), held as the fraction num / den.
SlSimReturn ==
    /\ args.fn = "sl_sim" /\ ret = None
    /\ frame.i = 10
    /\ ret' = Some([raised |-> "none", num |-> frame.counted, den |-> args.nsims])
    /\ UNCHANGED <<pipeline_vars, args, frame>>

\* Runs of sim and of sl_sim in which every call of gen_correlated returns.
InitSim ==
    /\ PipelineIdle
    /\ args \in [fn : {"sim", "sl_sim"}, nsims : 1 .. MaxNsims]
    /\ ret = None
    /\ frame = [i |-> 0, evaluated |-> 0, counted |-> 0]

SpecSim ==
    InitSim /\ [][SimBatch \/ SimReturn \/ SlSimBatch \/ SlSimReturn]_vars

\* C12: when sim or sl_sim returns for a requested draw count N >= 1, it
\* has evaluated exactly N synthetic vectors, and what it returns is the
\* number counted over N, a value in [0,1] that is the fraction of the
\* vectors evaluated that were counted.
C12_EvaluatesAllDraws ==
    args.fn \in {"sim", "sl_sim"} /\ ret # None /\ ret[1].raised = "none" =>
        /\ frame.i = 10
        /\ frame.evaluated = args.nsims
        /\ ret[1].num = frame.counted /\ ret[1].den = args.nsims
        /\ 0 <= ret[1].num /\ ret[1].num <= ret[1].den
        /\ ret[1].num * frame.evaluated = frame.counted * ret[1].den


\* The prows of the assignments are runs of consecutive SiteRecords of the
\* stream, at positions that increase from one assignment to the next and
\* that the cursor has passed.
DisjointForwardRuns ==
    \E first \in [1 .. Len(region_info) -> 1 .. Len(fpvals) + 1] :
        \A k \in 1 .. Len(region_info) :
            LET prows == region_info[k].prows
                last == first[k] + Len(prows) - 1
            IN  /\ last < piter
                /\ last <= Len(fpvals)
                /\ prows = SubSeq(fpvals, first[k], last)
                /\ k < Len(region_info) => last < first[k + 1]

\* C13: on any inputs the cursor of _get_ps_in_regions only moves forward:
\* the number of items taken from the SiteRecord stream never decreases and
\* never exceeds the stream with its sentinel, and the assignments hold
\* disjoint runs of the stream, in stream order.
C13_ForwardSweep ==
    /\ [][piter' >= piter]_vars
    /\ [](args.fn = "_get_ps_in_regions" =>
            /\ piter <= Len(fpvals) + 1
            /\ DisjointForwardRuns)

\* Some total order of the chromosome names sorts both streams.
JointlySorted ==
    \E rank \in ChromOrders : SortedBy(rank, fregions) /\ SortedBy(rank, fpvals)

\* The matcher has returned two assignments on streams no chromosome order
\* sorts, having both skipped and collected records.
C13_Witness ==
    /\ args.fn = "_get_ps_in_regions"
    /\ ~JointlySorted
    /\ pc = "acf"
    /\ Len(region_info) = 2
    /\ Len(region_info[1].prows) + Len(region_info[2].prows) < Len(fpvals)


\* The main flow is past _get_ps_in_regions, returned or not.
MatcherOver == pc \notin {"precheck", "start_coverage", "begin_match", "match"}

\* C14: when _get_ps_in_regions has returned normally, the number of
\* assignments is the number of lines of the region file that do not start
\* with "#", the count of the pre-check; a run in which the two numbers
\* differ has ended by an error in the matcher (or at the pre-check) and
\* has yielded nothing.
C14_CountMatchesNonCommentLines ==
    args.fn = "region_p" =>
        /\ MatcherReturned =>
               Len(region_info) = NonCommentLines(fregions)
        /\ MatcherOver /\ Len(region_info) # NonCommentLines(fregions) =>
               /\ pc \in {"exited", "aborted"}
               /\ err \in {"SystemExit", "ValueError", "TypeError",
                           "AssertionError:163", "AssertionError:167"}
               /\ yielded = <<>>

\* The matcher has returned normally on a file of two regions.
C14_Witness ==
    /\ args.fn = "region_p"
    /\ pc = "acf"
    /\ Len(fregions) = 2
    /\ Len(region_info) = 2
    /\ NonCommentLines(fregions) = 2


\* C15: with random = True region_p never yields a result and never gets
\* to its loop over the regions; a run that no earlier error has ended is
\* ended by the ZeroDivisionError of line 189, which comes after the one
\* join of the coverage process and the read of the cell.
C15_RandomModeAborts ==
    args.fn = "region_p" /\ random =>
        /\ yielded = <<>>
        /\ pc \notin {"loop", "done"}
        /\ err # "AssertionError:202"
        /\ err = "ZeroDivisionError" =>
               /\ pc = "aborted"
               /\ joins = 1
               /\ cov_pc \in {"done", "crashed"}
               /\ total_coverage # None
               /\ MatcherReturned /\ lags # None

\* A run in the uniform mode on inputs that pass the matcher and the lag
\* list: it has joined the coverage process and ended at line 189.
C15_Witness ==
    /\ args.fn = "region_p" /\ random
    /\ pc = "aborted" /\ err = "ZeroDivisionError"
    /\ joins = 1 /\ writes = 1
    /\ Len(region_info) = 2
    /\ yielded = <<>>

=============================================================================
